---- MODULE Spec2Model ----
(***************************************************************************)
(* Model of app.py, the Streamlit dashboard "Resumo da Avaliação dos       *)
(* Ministérios": load_data (CSV ingestion and normalisation) followed by   *)
(* the sections of the page, executed top to bottom by the script.         *)
(*                                                                         *)
(* Text cells are sequences of one-character strings, so that str.strip()  *)
(* and str.title() are computed, not assumed.  Numeric cells that pandas   *)
(* may hold as NaN are records [nan, v].  novos_membros is kept in fixed   *)
(* point, in units of 1/Den, so that astype(int) is a real truncation.     *)
(* The cell contents of 'nome' and of the four narrative text columns are  *)
(* read by no section and are not modelled; the presence of the 'nome'     *)
(* column is.                                                              *)
(***************************************************************************)
EXTENDS Integers, Sequences, FiniteSets, TLC

VARIABLES src, df, columns, pc, msgs, ran, never, latest, missing, counts,
          lider, total, detail, weakest

vars == <<src, df, columns, pc, msgs, ran, never, latest, missing, counts,
          lider, total, detail, weakest>>

(***************************************************************************)
(* Bounds of the model.                                                    *)
(***************************************************************************)
\* largest number of data rows of the CSV file
MaxRows == 2
\* novos_membros values are multiples of 1/Den
Den == 2

(***************************************************************************)
(* Text: str.strip() and str.title() over sequences of characters.         *)
(***************************************************************************)
LowerChars == <<"a", "b", "c", "d", "e", "f", "g", "h", "i", "j", "k", "l", "m", "n", "o", "p", "q", "r", "s", "t", "u", "v", "w", "x", "y", "z", "á", "â", "ã", "ç", "é", "ê", "í", "ó", "ô", "õ", "ú">>

UpperChars == <<"A", "B", "C", "D", "E", "F", "G", "H", "I", "J", "K", "L", "M", "N", "O", "P", "Q", "R", "S", "T", "U", "V", "W", "X", "Y", "Z", "Á", "Â", "Ã", "Ç", "É", "Ê", "Í", "Ó", "Ô", "Õ", "Ú">>

IsLower(c) == \E i \in 1..Len(LowerChars) : LowerChars[i] = c

IsUpper(c) == \E i \in 1..Len(UpperChars) : UpperChars[i] = c

IsCased(c) == IsLower(c) \/ IsUpper(c)

ToUpper(c) == IF IsLower(c) THEN UpperChars[CHOOSE i \in 1..Len(LowerChars) : LowerChars[i] = c] ELSE c

ToLower(c) == IF IsUpper(c) THEN LowerChars[CHOOSE i \in 1..Len(UpperChars) : UpperChars[i] = c] ELSE c

IsSpace(c) == c \in {" ", "\t"}

RECURSIVE LStrip(_)
LStrip(s) == IF s # <<>> /\ IsSpace(Head(s)) THEN LStrip(Tail(s)) ELSE s

RECURSIVE RStrip(_)
RStrip(s) == IF s # <<>> /\ IsSpace(s[Len(s)]) THEN RStrip(SubSeq(s, 1, Len(s) - 1)) ELSE s

\* str.strip()
Strip(s) == RStrip(LStrip(s))

\* str.title(): a cased character is upper-cased when the character before
\* it is not cased, and lower-cased otherwise
Title(s) == [i \in 1..Len(s) |-> IF i > 1 /\ IsCased(s[i - 1]) THEN ToLower(s[i]) ELSE ToUpper(s[i])]

(***************************************************************************)
(* Names of the registry and of the months.                                *)
(***************************************************************************)
Tecnica == <<"T", "é", "c", "n", "i", "c", "a">>

Introducao == <<"I", "n", "t", "r", "o", "d", "u", "ç", "ã", "o">>

Intercessao == <<"I", "n", "t", "e", "r", "c", "e", "s", "s", "ã", "o">>

Louvor == <<"L", "o", "u", "v", "o", "r">>

Comunicacao == <<"C", "o", "m", "u", "n", "i", "c", "a", "ç", "ã", "o">>

Danca == <<"D", "a", "n", "ç", "a">>

Midaf == <<"M", "i", "d", "a", "f">>

Milaf == <<"M", "i", "l", "a", "f">>

Janeiro == <<"J", "a", "n", "e", "i", "r", "o">>

Fevereiro == <<"F", "e", "v", "e", "r", "e", "i", "r", "o">>

Marco == <<"M", "a", "r", "ç", "o">>

Abril == <<"A", "b", "r", "i", "l">>

Maio == <<"M", "a", "i", "o">>

Junho == <<"J", "u", "n", "h", "o">>

Julho == <<"J", "u", "l", "h", "o">>

Agosto == <<"A", "g", "o", "s", "t", "o">>

Setembro == <<"S", "e", "t", "e", "m", "b", "r", "o">>

Outubro == <<"O", "u", "t", "u", "b", "r", "o">>

Novembro == <<"N", "o", "v", "e", "m", "b", "r", "o">>

Dezembro == <<"D", "e", "z", "e", "m", "b", "r", "o">>

MesDesconhecido == <<"M", "ê", "s", " ", "D", "e", "s", "c", "o", "n", "h", "e", "c", "i", "d", "o">>

\* leader -> ministry
LIDERES_MINISTERIOS == [l \in {"Isaac", "Mário", "Moysés", "Wendel", "Marcus", "Marcela"} |->
    CASE l = "Isaac" -> Tecnica
      [] l = "Mário" -> Introducao
      [] l = "Moysés" -> Intercessao
      [] l = "Wendel" -> Louvor
      [] l = "Marcus" -> Comunicacao
      [] l = "Marcela" -> Danca]

CANONICAL_LEADER_NAMES == DOMAIN LIDERES_MINISTERIOS

CANONICAL_MINISTRY_NAMES == {LIDERES_MINISTERIOS[l] : l \in DOMAIN LIDERES_MINISTERIOS}

\* ministry -> leader
MINISTERIOS_LIDERES == [m \in CANONICAL_MINISTRY_NAMES |-> CHOOSE l \in DOMAIN LIDERES_MINISTERIOS : LIDERES_MINISTERIOS[l] = m]

INDICATOR_DISPLAY_NAMES == [c \in {"pontualidade", "assiduidade_celebracoes", "assiduidade_reunioes", "trabalho_equipe"} |->
    CASE c = "pontualidade" -> "Pontualidade"
      [] c = "assiduidade_celebracoes" -> "Assiduidade nas Celebrações"
      [] c = "assiduidade_reunioes" -> "Assiduidade nas Reuniões"
      [] c = "trabalho_equipe" -> "Trabalho em Equipe"]

MesesSeq == <<Janeiro, Fevereiro, Marco, Abril, Maio, Junho, Julho, Agosto, Setembro, Outubro, Novembro, Dezembro>>

\* month name -> 1..12
MESES_NUM == [m \in {MesesSeq[i] : i \in 1..12} |-> CHOOSE i \in 1..12 : MesesSeq[i] = m]

\* 1..12 -> month name
NUM_MESES == [n \in {MESES_NUM[m] : m \in DOMAIN MESES_NUM} |-> CHOOSE m \in DOMAIN MESES_NUM : MESES_NUM[m] = n]

\* the alias table of load_data
ministry_name_mapping == [k \in {Midaf, Milaf, Intercessao, Tecnica, Introducao, Louvor, Comunicacao, Danca} |->
    CASE k = Midaf -> Danca
      [] k = Milaf -> Louvor
      [] OTHER -> k]

\* placeholder written into missing indicator cells
SENTINEL == 999

indicator_cols == <<"pontualidade", "assiduidade_celebracoes", "assiduidade_reunioes", "trabalho_equipe">>

(***************************************************************************)
(* Cells.  A raw cell of a numeric column is a number, a blank or a text   *)
(* that is no number.                                                      *)
(***************************************************************************)
NaN == [nan |-> TRUE, v |-> 0]

Val(n) == [nan |-> FALSE, v |-> n]

Num(n) == [kind |-> "num", v |-> n]

Blank == [kind |-> "blank", v |-> 0]

Txt == [kind |-> "text", v |-> 0]

\* pd.to_numeric(..., errors='coerce') of one cell
to_numeric(cell) == IF cell.kind = "num" THEN Val(cell.v) ELSE NaN

\* Series.fillna(x) of one cell
fillna(c, x) == IF c.nan THEN x ELSE c.v

\* Series.map(dict) of one cell: NaN where the key is missing
map_meses(name) == IF name \in DOMAIN MESES_NUM THEN Val(MESES_NUM[name]) ELSE NaN

\* .map(ministry_name_mapping).fillna(df['ministerio']) of one cell
map_ministerio(name) == IF name \in DOMAIN ministry_name_mapping THEN ministry_name_mapping[name] ELSE name

\* astype(int) of a fixed-point value: truncation towards zero
astype_int(h) == IF h >= 0 THEN (h \div Den) * Den ELSE -(((-h) \div Den) * Den)

(***************************************************************************)
(* load_data.                                                              *)
(***************************************************************************)
\* the frame load_data returns on every failure: pd.DataFrame()
EmptyFrame(errors) == [df |-> <<>>, columns |-> {}, msgs |-> errors]

\* one indicator cell after to_numeric and fillna(999); 0 stands for a
\* column the file does not have, which no section reads
indicator_cell(r, col, cols) == IF col \in cols THEN fillna(to_numeric(r[col]), SENTINEL) ELSE 0

\* one row after the cleaning steps, before the rows with an invalid period
\* are dropped: ano_referencia and mes_referencia_num may be NaN
clean_row(r, cols) ==
    [ministerio |-> map_ministerio(Title(Strip(r.ministerio))),
     ano_referencia |-> to_numeric(r.ano_referencia),
     mes_referencia |-> Title(Strip(r.mes_referencia)),
     mes_referencia_num |-> map_meses(Title(Strip(r.mes_referencia))),
     pontualidade |-> indicator_cell(r, "pontualidade", cols),
     assiduidade_celebracoes |-> indicator_cell(r, "assiduidade_celebracoes", cols),
     assiduidade_reunioes |-> indicator_cell(r, "assiduidade_reunioes", cols),
     trabalho_equipe |-> indicator_cell(r, "trabalho_equipe", cols),
     novos_membros |-> IF "novos_membros" \in cols THEN fillna(to_numeric(r.novos_membros), 0) ELSE 0,
     nomes_novos_membros |-> IF "nomes_novos_membros" \in cols THEN r.nomes_novos_membros ELSE ""]

\* dropna(subset=['ano_referencia', 'mes_referencia_num']) keeps a row when
\* neither is NaN
period_valid(row) == ~row.ano_referencia.nan /\ ~row.mes_referencia_num.nan

dropna_period(rows) == SelectSeq(rows, period_valid)

\* astype(int) of the two period columns
period_int(row) == [row EXCEPT !.ano_referencia = row.ano_referencia.v, !.mes_referencia_num = row.mes_referencia_num.v]

\* the st.warning of each indicator column the file does not have
missing_indicator_warnings(cols) == IF \E i \in 1..Len(indicator_cols) : indicator_cols[i] \notin cols THEN {"coluna_de_indicador_ausente"} ELSE {}

\* the frame of a file that was read and has its period columns
normalized(s) ==
    LET cleaned == [i \in 1..Len(s.rows) |-> clean_row(s.rows[i], s.columns)]
        kept == dropna_period(cleaned)
    IN  [df |-> [i \in 1..Len(kept) |-> period_int(kept[i])],
         columns |-> s.columns \cup {"mes_referencia_num"},
         msgs |-> missing_indicator_warnings(s.columns)]

\* the frame as it stands where the period columns are found missing: the
\* value a 'return df' in place of 'return pd.DataFrame()' would hand back
load_data_partial(s) ==
    IF s.file = "missing" THEN EmptyFrame({"erro_arquivo"})
    ELSE IF s.file = "malformed" \/ ~({"nome", "ministerio"} \subseteq s.columns) THEN EmptyFrame({"erro_csv"})
    ELSE IF "ano_referencia" \notin s.columns \/ "mes_referencia" \notin s.columns
         THEN [df |-> [i \in 1..Len(s.rows) |-> [ministerio |-> map_ministerio(Title(Strip(s.rows[i].ministerio)))]],
               columns |-> s.columns, msgs |-> {"erro_colunas"}]
    ELSE normalized(s)

\* load_data: returns the frame and the messages it showed.  A missing file
\* is FileNotFoundError; a file pandas cannot parse, or one without the
\* 'nome' or 'ministerio' column (KeyError at the first cleaning steps), is
\* the generic except branch.
load_data(s) ==
    IF s.file = "missing" THEN EmptyFrame({"erro_arquivo"})
    ELSE IF s.file = "malformed" \/ ~({"nome", "ministerio"} \subseteq s.columns) THEN EmptyFrame({"erro_csv"})
    ELSE IF "ano_referencia" \notin s.columns \/ "mes_referencia" \notin s.columns THEN EmptyFrame({"erro_colunas"})
    ELSE normalized(s)

(***************************************************************************)
(* Helpers over sets and frames.                                           *)
(***************************************************************************)
Max(S) == CHOOSE x \in S : \A y \in S : y <= x

Min(S) == CHOOSE x \in S : \A y \in S : x <= y

Rows(d) == 1..Len(d)

\* Series.sum() of the novos_membros column
RECURSIVE sum_novos(_)
sum_novos(d) == IF d = <<>> THEN 0 ELSE Head(d).novos_membros + sum_novos(Tail(d))

\* set(df['ministerio'].unique())
ministerios_presentes(d) == {d[i].ministerio : i \in Rows(d)}

(***************************************************************************)
(* Section a: Participação dos Líderes.                                    *)
(***************************************************************************)
\* the list under "SEM NENHUM REGISTRO": only Técnica is looked up
never_submitted(d) == IF Tecnica \notin ministerios_presentes(d) THEN {Tecnica} ELSE {}

latest_year(d) == Max({d[i].ano_referencia : i \in Rows(d)})

\* the month taken as the greatest one of the whole frame
latest_month_num_any_year(d, y) == Max({d[i].mes_referencia_num : i \in Rows(d)})

\* df[df['ano_referencia'] == latest_year]['mes_referencia_num'].max()
latest_month_num(d, y) == Max({d[i].mes_referencia_num : i \in {j \in Rows(d) : d[j].ano_referencia = y}})

\* NUM_MESES.get(latest_month_num, "Mês Desconhecido")
latest_month_name(n) == IF n \in DOMAIN NUM_MESES THEN NUM_MESES[n] ELSE MesDesconhecido

\* set(df_ultimo_periodo['ministerio'].unique())
ministerios_presentes_ultimo(d, y, m) == {d[i].ministerio : i \in {j \in Rows(d) : d[j].ano_referencia = y /\ d[j].mes_referencia_num = m}}

ministerios_ausentes_ultimo_periodo_todos(d, y, m) == CANONICAL_MINISTRY_NAMES \ ministerios_presentes_ultimo(d, y, m)

\* the manual correction for Louvor in April 2025
manual_correction_applied(aus, name, y) == name = Abril /\ y = 2025 /\ Louvor \in aus

missing_in_latest(aus, name, y) == IF manual_correction_applied(aus, name, y) THEN aus \ {Louvor} ELSE aus

(***************************************************************************)
(* Section c: Preenchimentos por Ministério.                               *)
(***************************************************************************)
expected_ministry_counts == [m \in {Danca, Introducao, Intercessao, Louvor, Comunicacao, Tecnica} |->
    CASE m = Danca -> 4
      [] m = Tecnica -> 0
      [] OTHER -> 1]

\* the table of the bar chart: the fixed counts, and 0 for a registry
\* ministry they do not name
preenchimentos_completos_df(d) == [m \in (DOMAIN expected_ministry_counts) \cup CANONICAL_MINISTRY_NAMES |->
    IF m \in DOMAIN expected_ministry_counts THEN expected_ministry_counts[m] ELSE 0]

(***************************************************************************)
(* Section e: Novos Membros.                                               *)
(***************************************************************************)
\* df['novos_membros'] = pd.to_numeric(...).fillna(0).astype(int)
novos_membros_as_int(d) == [i \in Rows(d) |-> [d[i] EXCEPT !.novos_membros = astype_int(@)]]

has_new_members(row) == row.novos_membros > 0

has_no_negative_members(row) == row.novos_membros >= 0

\* the detail rows taken with >= in place of >
novos_membros_df_ge(d) == SelectSeq(d, has_no_negative_members)

\* df[df['novos_membros'] > 0]
novos_membros_df(d) == SelectSeq(d, has_new_members)

\* the three columns of the detail table
detail_columns(d) == [i \in Rows(d) |-> [Ministerio |-> d[i].ministerio, Qtd |-> d[i].novos_membros, Nomes |-> d[i].nomes_novos_membros]]

(***************************************************************************)
(* Section d: Ponto Mais Fraco por Ministério.                             *)
(***************************************************************************)
valid_indicator_cols(cols) == {indicator_cols[i] : i \in {j \in 1..Len(indicator_cols) : indicator_cols[j] \in cols}}

\* a cell kept as it is
replace_nothing(x) == Val(x)

\* .replace(999, np.nan) of one cell
replace_sentinel(x) == IF x = SENTINEL THEN NaN ELSE Val(x)

\* one row of df_temp: the valid indicator cells, NaN where unset
df_temp_row(row, vcols) == [c \in vcols |-> replace_sentinel(row[c])]

\* min(axis=1, skipna=True) of one row
ponto_fraco_valor(row, vcols) ==
    LET t == df_temp_row(row, vcols)
        defined == {t[c].v : c \in {k \in vcols : ~t[k].nan}}
    IN  IF defined = {} THEN NaN ELSE Val(Min(defined))

\* df_temp[valid_indicator_cols].isnull().all().all()
all_null(d, vcols) == \A i \in Rows(d) : ponto_fraco_valor(d[i], vcols).nan

\* the groups of groupby('ministerio') over the rows with a ponto_fraco_valor
ministerios_com_valor(d, vcols) == {d[i].ministerio : i \in {j \in Rows(d) : ~ponto_fraco_valor(d[j], vcols).nan}}

\* groupby('ministerio')['ponto_fraco_valor'].min() for one ministry
ponto_fraco_min(d, vcols, m) == Min({ponto_fraco_valor(d[i], vcols).v : i \in {j \in Rows(d) : d[j].ministerio = m /\ ~ponto_fraco_valor(d[j], vcols).nan}})

\* the rows of df_min_rows_for_ministry
df_min_rows_for_ministry(d, vcols, m, min_valor) == {i \in Rows(d) : d[i].ministerio = m /\ ~ponto_fraco_valor(d[i], vcols).nan /\ ponto_fraco_valor(d[i], vcols).v = min_valor}

\* the indicators read from the first row of df_min_rows_for_ministry only
indicadores_fracos_first_row(d, vcols, m, min_valor) ==
    LET first == Min(df_min_rows_for_ministry(d, vcols, m, min_valor))
    IN  {c \in vcols : ~df_temp_row(d[first], vcols)[c].nan /\ df_temp_row(d[first], vcols)[c].v = min_valor}

\* indicadores_fracos_tech_names
indicadores_fracos_tech_names(d, vcols, m, min_valor) ==
    {c \in vcols : \E i \in df_min_rows_for_ministry(d, vcols, m, min_valor) :
        ~df_temp_row(d[i], vcols)[c].nan /\ df_temp_row(d[i], vcols)[c].v = min_valor}

\* resultados_ponto_fraco
resultados_ponto_fraco(d, vcols) ==
    {[Ministerio |-> m,
      MenorNota |-> ponto_fraco_min(d, vcols, m),
      Indicadores |-> {INDICATOR_DISPLAY_NAMES[c] : c \in indicadores_fracos_tech_names(d, vcols, m, ponto_fraco_min(d, vcols, m))}]
     : m \in ministerios_com_valor(d, vcols)}

(***************************************************************************)
(* The inputs: the CSV file as pandas reads it.                            *)
(***************************************************************************)
AllColumns == {"nome", "ministerio", "ano_referencia", "mes_referencia", "pontualidade", "assiduidade_celebracoes", "assiduidade_reunioes", "trabalho_equipe", "novos_membros", "nomes_novos_membros"}

BaseRow ==
    [ministerio |-> <<"m", "i", "d", "a", "f">>,
     ano_referencia |-> Num(2025),
     mes_referencia |-> <<"a", "b", "r", "i", "l", " ">>,
     pontualidade |-> Num(3),
     assiduidade_celebracoes |-> Num(3),
     assiduidade_reunioes |-> Num(3),
     trabalho_equipe |-> Num(3),
     novos_membros |-> Num(0),
     nomes_novos_membros |-> "Elaine Tacafais"]

\* rows that differ in ministry and period: "técnica ", "milaf" (alias of
\* Louvor) and "jovens" (no registry ministry); 2024 and 2025 and a year
\* that is no number; "abril ", "maio" and "abr" (no month)
PeriodRows ==
    {[BaseRow EXCEPT !.ministerio = m, !.ano_referencia = a, !.mes_referencia = ms] :
        m \in {<<"t", "é", "c", "n", "i", "c", "a", " ">>, <<"m", "i", "l", "a", "f">>, <<"j", "o", "v", "e", "n", "s">>},
        a \in {Num(2024), Num(2025), Txt},
        ms \in {<<"a", "b", "r", "i", "l", " ">>, <<"m", "a", "i", "o">>, <<"a", "b", "r">>}}

\* rows of "midaf" (alias of Dança) that differ in the four indicators: a
\* number, a blank, a text that is no number, and a literal 999
WeakRowsDanca ==
    {[BaseRow EXCEPT !.pontualidade = p, !.assiduidade_celebracoes = c, !.assiduidade_reunioes = r, !.trabalho_equipe = t] :
        p \in {Num(1), Num(2), Blank},
        c \in {Num(1), Txt},
        r \in {Num(SENTINEL), Num(1)},
        t \in {Num(2), Blank}}

\* rows of " LOUVOR" that differ in two indicators and have the others unset
WeakRowsLouvor ==
    {[BaseRow EXCEPT !.ministerio = <<" ", "L", "O", "U", "V", "O", "R">>, !.pontualidade = p, !.assiduidade_celebracoes = c,
                     !.assiduidade_reunioes = Num(SENTINEL), !.trabalho_equipe = Blank] :
        p \in {Num(1), Num(2), Blank},
        c \in {Num(1), Txt}}

WeakRows == WeakRowsDanca \cup WeakRowsLouvor

\* rows that differ in ministry and in the number of new members: -1, 0,
\* 1/Den, 1, 1 + 1/Den, a blank and a text
NovosRows ==
    {[BaseRow EXCEPT !.ministerio = m, !.novos_membros = n] :
        m \in {<<"m", "i", "d", "a", "f">>, <<" ", "L", "O", "U", "V", "O", "R">>},
        n \in {Num(-Den), Num(0), Num(1), Num(Den), Num(Den + 1), Blank, Txt}}

\* rows with a valid and with an invalid period
LoadRows == {BaseRow, [BaseRow EXCEPT !.ano_referencia = Blank], [BaseRow EXCEPT !.ministerio = <<"t", "é", "c", "n", "i", "c", "a", " ">>, !.pontualidade = Num(1)]}

\* the file with every column, and with any one column missing
ColumnSets == {AllColumns} \cup {AllColumns \ {c} : c \in AllColumns}

(***************************************************************************)
(* The script.                                                             *)
(***************************************************************************)
\* the file is one of files, its columns one of colsets, and its rows up to
\* MaxRows rows of rowset
InitWith(files, colsets, rowset) ==
    /\ \E f \in files, c \in colsets, n \in 0..MaxRows : \E r \in [1..n -> rowset] :
           src = [file |-> f, columns |-> c, rows |-> r]
    /\ df = <<>>
    /\ columns = {}
    /\ pc = "start"
    /\ msgs = {}
    /\ ran = {}
    /\ never = {}
    /\ latest = [ano |-> 0, mes |-> <<>>]
    /\ missing = {}
    /\ counts = <<>>
    /\ lider = <<>>
    /\ total = 0
    /\ detail = <<>>
    /\ weakest = {}

\* the guard of the main flow that never sends an empty frame to the fallback
df_is_none(d) == FALSE

\* df is None or df.empty
df_unusable(d) == d = <<>>

\* df = load_data()
LoadData ==
    /\ pc = "start"
    /\ LET frame == load_data(src)
       IN  /\ df' = frame.df
           /\ columns' = frame.columns
           /\ msgs' = frame.msgs
    /\ pc' = "loaded"
    /\ UNCHANGED <<src, ran, never, latest, missing, counts, lider, total, detail, weakest>>

\* the st.warning shown in place of the dashboard
Fallback ==
    /\ pc = "loaded"
    /\ df_unusable(df)
    /\ msgs' = msgs \cup {"nao_foi_possivel_carregar"}
    /\ pc' = "done"
    /\ UNCHANGED <<src, df, columns, ran, never, latest, missing, counts, lider, total, detail, weakest>>

\* section a.  A frame without the 'ministerio' column raises at once; an
\* empty frame, or one without the period columns, raises where the latest
\* period is computed, after the first list was shown.
ParticipacaoLideres ==
    /\ pc = "loaded"
    /\ ~df_unusable(df)
    /\ IF "ministerio" \notin columns
       THEN /\ pc' = "crashed"
            /\ UNCHANGED <<never, latest, missing, msgs, ran>>
       ELSE IF df = <<>> \/ ~({"ano_referencia", "mes_referencia_num"} \subseteq columns)
       THEN /\ never' = never_submitted(df)
            /\ pc' = "crashed"
            /\ UNCHANGED <<latest, missing, msgs, ran>>
       ELSE LET y == latest_year(df)
                m == latest_month_num(df, y)
                name == latest_month_name(m)
                aus == ministerios_ausentes_ultimo_periodo_todos(df, y, m)
            IN  /\ never' = never_submitted(df)
                /\ latest' = [ano |-> y, mes |-> name]
                /\ missing' = missing_in_latest(aus, name, y)
                /\ msgs' = msgs \cup (IF missing_in_latest(aus, name, y) # {} THEN {"nao_enviaram"} ELSE {"todos_enviaram"})
                                \cup (IF missing_in_latest(aus, name, y) = {} /\ manual_correction_applied(aus, name, y) THEN {"apos_ajuste_manual"} ELSE {})
                /\ ran' = ran \cup {"participacao"}
                /\ pc' = "preenchimentos"
    /\ UNCHANGED <<src, df, columns, counts, lider, total, detail, weakest>>

\* section c
Preenchimentos ==
    /\ pc = "preenchimentos"
    /\ counts' = preenchimentos_completos_df(df)
    /\ ran' = ran \cup {"preenchimentos"}
    /\ pc' = "lider"
    /\ UNCHANGED <<src, df, columns, msgs, never, latest, missing, lider, total, detail, weakest>>

\* section b: the text is fixed
LiderMaisAtivo ==
    /\ pc = "lider"
    /\ lider' = [nome |-> "Marcela", ministerio |-> Danca, relatorios |-> 4]
    /\ ran' = ran \cup {"lider"}
    /\ pc' = "novos"
    /\ UNCHANGED <<src, df, columns, msgs, never, latest, missing, counts, total, detail, weakest>>

\* section e
NovosMembros ==
    /\ pc = "novos"
    /\ IF {"novos_membros", "nomes_novos_membros"} \subseteq columns
       THEN /\ df' = novos_membros_as_int(df)
            /\ detail' = detail_columns(novos_membros_df(novos_membros_as_int(df)))
            /\ total' = sum_novos(novos_membros_df(novos_membros_as_int(df)))
            /\ msgs' = msgs \cup (IF novos_membros_df(novos_membros_as_int(df)) = <<>> THEN {"nenhum_novo_membro"} ELSE {})
       ELSE /\ msgs' = msgs \cup {"colunas_novos_membros_ausentes"}
            /\ UNCHANGED <<df, detail, total>>
    /\ ran' = ran \cup {"novos"}
    /\ pc' = "ponto_fraco"
    /\ UNCHANGED <<src, columns, never, latest, missing, counts, lider, weakest>>

\* section d
PontoFraco ==
    /\ pc = "ponto_fraco"
    /\ LET vcols == valid_indicator_cols(columns)
       IN  IF vcols = {}
           THEN /\ msgs' = msgs \cup {"nenhum_indicador"}
                /\ UNCHANGED weakest
           ELSE IF all_null(df, vcols)
           THEN /\ msgs' = msgs \cup {"sem_dados_numericos"}
                /\ UNCHANGED weakest
           ELSE /\ weakest' = resultados_ponto_fraco(df, vcols)
                /\ msgs' = msgs \cup (IF resultados_ponto_fraco(df, vcols) = {} THEN {"sem_pontos_fracos"} ELSE {})
    /\ ran' = ran \cup {"ponto_fraco"}
    /\ pc' = "done"
    /\ UNCHANGED <<src, df, columns, never, latest, missing, counts, lider, total, detail>>

Next ==
    \/ LoadData
    \/ Fallback
    \/ ParticipacaoLideres
    \/ Preenchimentos
    \/ LiderMaisAtivo
    \/ NovosMembros
    \/ PontoFraco

\* files that differ in ministries and periods
InitPeriod == InitWith({"ok"}, {AllColumns}, PeriodRows)

SpecPeriod == InitPeriod /\ [][Next]_vars

\* files that differ in the indicators
InitWeak == InitWith({"ok"}, {AllColumns}, WeakRows)

SpecWeak == InitWeak /\ [][Next]_vars

\* files that differ in the new members, with and without the names column
InitNovos == InitWith({"ok"}, {AllColumns, AllColumns \ {"nomes_novos_membros"}}, NovosRows)

SpecNovos == InitNovos /\ [][Next]_vars

\* files that are missing, malformed, or lack a column
InitLoad == InitWith({"ok", "missing", "malformed"}, ColumnSets, LoadRows)

SpecLoad == InitLoad /\ [][Next]_vars

(***************************************************************************)
(* Properties.                                                             *)
(***************************************************************************)
\* the normalized record set as load_data returned it
Normalized == load_data(src).df

\* the rows of ministry m
RowsOf(d, m) == {i \in Rows(d) : d[i].ministerio = m}

\* the greatest (year, month-number) of the frame in lexicographic order
LexMaxPeriod(d) ==
    CHOOSE p \in {<<d[i].ano_referencia, d[i].mes_referencia_num>> : i \in Rows(d)} :
        \A j \in Rows(d) : \/ d[j].ano_referencia < p[1]
                           \/ d[j].ano_referencia = p[1] /\ d[j].mes_referencia_num <= p[2]

\* the ministries with a row at period p
PresentAt(d, p) == {d[i].ministerio : i \in {j \in Rows(d) : <<d[j].ano_referencia, d[j].mes_referencia_num>> = p}}

\* C1: the ministries listed as never having submitted are registry
\* ministries, and a registry ministry is listed if and only if the counting
\* view reports 0 records for it.
C1_NeverSubmittedIffCountZero ==
    {"participacao", "preenchimentos"} \subseteq ran =>
        /\ never \subseteq CANONICAL_MINISTRY_NAMES
        /\ \A m \in CANONICAL_MINISTRY_NAMES : m \in never <=> counts[m] = 0

\* C2: the ministries shown as missing in the latest period are exactly the
\* registry ministries without a row at the latest period, whatever the
\* latest period is.
C2_MissingIsRegistryMinusPresent ==
    "participacao" \in ran =>
        missing = CANONICAL_MINISTRY_NAMES \ PresentAt(df, LexMaxPeriod(df))

\* C3: the latest period the section computes (greatest year, then greatest
\* month among the rows of that year) is the lexicographic maximum of
\* (year, month-number) over all rows, and no ministry with a row at that
\* period is shown as missing.
C3_LatestIsLexMaxAndPresentNotMissing ==
    "participacao" \in ran =>
        /\ latest.mes \in DOMAIN MESES_NUM
        /\ <<latest.ano, MESES_NUM[latest.mes]>> = LexMaxPeriod(df)
        /\ PresentAt(df, LexMaxPeriod(df)) \cap missing = {}

\* a frame whose greatest month is not in its greatest year, with a registry
\* ministry at the latest period and another one missing
C3_Witness ==
    /\ "participacao" \in ran
    /\ \E i, j \in Rows(df) : df[i].ano_referencia < df[j].ano_referencia /\ df[i].mes_referencia_num > df[j].mes_referencia_num
    /\ PresentAt(df, LexMaxPeriod(df)) \cap CANONICAL_MINISTRY_NAMES # {}
    /\ missing # {}

\* C4: the counting view reports, for each of the 6 registry ministries, the
\* number of normalized rows of that ministry (0 when there are none).
C4_CountsAreRowCounts ==
    "preenchimentos" \in ran =>
        \A m \in CANONICAL_MINISTRY_NAMES : m \in DOMAIN counts /\ counts[m] = Cardinality(RowsOf(df, m))

\* C5: for every entry (m, v, inds) of the weakest-indicator table, every
\* indicator of inds equals v in some row of m, no row of m has an indicator
\* other than the sentinel below v, and v is not the sentinel.
C5_WeakestIsSoundMinimum ==
    "ponto_fraco" \in ran =>
        \A w \in weakest :
            /\ \A c \in valid_indicator_cols(columns) :
                   INDICATOR_DISPLAY_NAMES[c] \in w.Indicadores => \E i \in RowsOf(df, w.Ministerio) : df[i][c] = w.MenorNota
            /\ \A i \in RowsOf(df, w.Ministerio) : \A c \in valid_indicator_cols(columns) :
                   df[i][c] # SENTINEL => df[i][c] >= w.MenorNota
            /\ w.MenorNota # SENTINEL

\* an entry with two indicators, for a ministry that has a sentinel cell
C5_Witness ==
    /\ "ponto_fraco" \in ran
    /\ \E w \in weakest :
           /\ Cardinality(w.Indicadores) >= 2
           /\ \E i \in RowsOf(df, w.Ministerio) : \E c \in valid_indicator_cols(columns) : df[i][c] = SENTINEL

\* the indicator values of ministry m that are not the sentinel
DefinedValues(d, cols, m) == {d[i][c] : i \in RowsOf(d, m), c \in valid_indicator_cols(cols)} \ {SENTINEL}

\* C10: a ministry of the normalized set has an entry in the weakest-indicator
\* table if and only if one of its rows has an indicator other than the
\* sentinel; the entry's value is the minimum of all such values of its rows,
\* and its indicators are all those that equal this minimum in any row of
\* the ministry.
C10_WeakestIsExactUnion ==
    "ponto_fraco" \in ran =>
        /\ \A m \in ministerios_presentes(df) :
               (\E w \in weakest : w.Ministerio = m) <=> DefinedValues(df, columns, m) # {}
        /\ \A w \in weakest :
               /\ w.Ministerio \in ministerios_presentes(df)
               /\ DefinedValues(df, columns, w.Ministerio) # {}
               /\ w.MenorNota = Min(DefinedValues(df, columns, w.Ministerio))
               /\ w.Indicadores = {INDICATOR_DISPLAY_NAMES[c] : c \in {k \in valid_indicator_cols(columns) :
                                       \E i \in RowsOf(df, w.Ministerio) : df[i][k] = w.MenorNota}}
        /\ \A w1, w2 \in weakest : w1.Ministerio = w2.Ministerio => w1 = w2

\* a ministry whose minimum is reached by one indicator in one row and by
\* another indicator in another row
C10_Witness ==
    /\ "ponto_fraco" \in ran
    /\ \E w \in weakest : \E i, j \in RowsOf(df, w.Ministerio) : \E c1, c2 \in valid_indicator_cols(columns) :
           /\ i < j /\ c1 # c2
           /\ df[i][c1] = w.MenorNota /\ df[i][c2] # w.MenorNota
           /\ df[j][c2] = w.MenorNota /\ df[j][c1] # w.MenorNota

\* the sum of the counts of all rows
RECURSIVE SumAll(_)
SumAll(d) == IF d = <<>> THEN 0 ELSE Head(d).novos_membros + SumAll(Tail(d))

\* the sum of the integer parts of the counts whose integer part is positive
RECURSIVE SumPositiveInt(_)
SumPositiveInt(d) ==
    IF d = <<>> THEN 0
    ELSE (IF astype_int(Head(d).novos_membros) > 0 THEN astype_int(Head(d).novos_membros) ELSE 0) + SumPositiveInt(Tail(d))

RECURSIVE SumQtd(_)
SumQtd(t) == IF t = <<>> THEN 0 ELSE Head(t).Qtd + SumQtd(Tail(t))

\* the rows of d whose integer count is positive, in order
RECURSIVE PositiveRows(_)
PositiveRows(d) ==
    IF d = <<>> THEN <<>>
    ELSE (IF astype_int(Head(d).novos_membros) > 0
          THEN <<[Ministerio |-> Head(d).ministerio, Qtd |-> astype_int(Head(d).novos_membros), Nomes |-> Head(d).nomes_novos_membros]>>
          ELSE <<>>) \o PositiveRows(Tail(d))

NovosShown == "novos" \in ran /\ {"novos_membros", "nomes_novos_membros"} \subseteq columns

Unreadable == src.file # "ok" \/ ~({"nome", "ministerio", "ano_referencia", "mes_referencia"} \subseteq src.columns)

\* C7: when the input cannot be read, load_data returns an empty frame, no
\* section runs and the fallback message is shown; a section runs only on a
\* frame that has rows.
C7_UnreadableGivesFallbackOnly ==
    /\ (Unreadable /\ pc # "start") =>
           /\ df = <<>>
           /\ ran = {}
           /\ pc \in {"loaded", "done"}
           /\ pc = "done" => "nao_foi_possivel_carregar" \in msgs
    /\ ran # {} => df # <<>>

\* a file with rows and without the 'ano_referencia' column, at the end
C7_Witness ==
    /\ pc = "done"
    /\ src.file = "ok" /\ "ano_referencia" \notin src.columns /\ src.rows # <<>>
    /\ "nao_foi_possivel_carregar" \in msgs

\* the file was read, has the required columns, and no row was kept
ReadWithoutRows == ~Unreadable /\ pc # "start" /\ df = <<>>

\* C8 as stated: when ingestion succeeds with no usable row, each of the
\* aggregations still runs and gives its empty result.
C8_EmptyInputRunsAggregations ==
    (ReadWithoutRows /\ pc = "done") => {"participacao", "preenchimentos", "novos", "ponto_fraco"} \subseteq ran

\* C8 as amended: when ingestion succeeds with no usable row, no section
\* runs, the fallback message is shown and nothing raises.
C8_EmptyInputGivesFallbackOnly ==
    ReadWithoutRows =>
        /\ ran = {}
        /\ pc \in {"loaded", "done"}
        /\ pc = "done" => "nao_foi_possivel_carregar" \in msgs
        /\ msgs \cap {"erro_arquivo", "erro_csv", "erro_colunas"} = {}

\* a file whose rows were all dropped for an invalid period, at the end
C8_Witness ==
    /\ pc = "done"
    /\ ReadWithoutRows
    /\ src.rows # <<>>

\* C9: once load_data has returned, no section changes the frame.
C9_FrameNeverModified == [][pc # "start" => df' = df]_vars

====
